---- MODULE Spec2Model ----
(***************************************************************************)
(* Booking-and-checkout consistency core of the consultations backend:     *)
(* the slot ledger (consultations app), the cart, the checkout             *)
(* orchestrator and the Stripe webhook (orders app).                       *)
(*                                                                         *)
(* The durable store is the shared state; every HTTP request is a process  *)
(* whose database reads and writes are separate steps wherever the code    *)
(* runs them as separate queries with no transaction around them.          *)
(*                                                                         *)
(* Times of day are minutes since midnight, dates are day numbers, money   *)
(* is in cents (DecimalField with decimal_places=2).                       *)
(***************************************************************************)
EXTENDS Integers, Sequences, FiniteSets, TLC

\* ---------------------------------------------------------------- values

Users == {"u1", "u2"}

\* Two of the ten CATEGORY_CHOICES.
Categories == {"Immigration", "Family Law"}

\* timezone.now().date(), as a day number.
Today == 1

WORKING_HOURS_START == 9 * 60
WORKING_HOURS_END == 18 * 60

DURATION_CHOICES == {15, 30, 60, 120}

MinutesPerDay == 24 * 60

\* The price every category starts with (45.00, the tests' fixture).
InitialPrice == 45 * 100

\* Concurrent webhook deliveries.
Handlers == {"h1", "h2"}

NoReq == [category |-> "none", date |-> 0, time |-> 0, duration |-> 0]

VARIABLES
    dom,            \* the scenario: who acts, the values requests draw
                    \* their fields from, the caps on carts and orders
    price,          \* ConsultationCategory.price_per_15min, per category
    appointments,   \* the Appointment table: a set of rows
    book,           \* per user: the direct-booking request in progress
    cart,           \* per user: whether a Cart row exists, and its CartItems
    orders,         \* the Order table, by primary key
    orderItems,     \* the OrderItem table: per order id, its rows in order
    nextOrder,      \* the next Order primary key
    ck,             \* per user: the checkout request in progress
    intents,        \* provider side: order ids a PaymentIntent exists for
    stripeCalls,    \* order ids PaymentIntent.create was called for
    wh,             \* per handler: the webhook delivery in progress
    resp            \* the response of the request that completed last

vars == <<dom, price, appointments, book, cart, orders, orderItems,
          nextOrder, ck, intents, stripeCalls, wh, resp>>

\* The bodies a booking or cart request can carry.
Requests == [category : dom.categories, date : dom.dates, time : dom.times,
             duration : dom.durations]

Response(op, u, outcome) == [op |-> op, user |-> u, outcome |-> outcome]

\* ------------------------------------------------------- pricing engine

\* (Decimal(price_per_15min) / Decimal(15)) * Decimal(duration), in cents.
\* Decimal's 28-digit quotient differs from the exact one by less than
\* 10^-24, far below the cent the stored columns keep.
compute_price(unit, duration) == (unit * duration) \div 15

\* A cart item priced at the price its category started with.
computed_priceAtFirstPrice(item) == compute_price(InitialPrice, item.duration)

computed_price(item) == compute_price(price[item.category], item.duration)

RECURSIVE SumPrices(_)
SumPrices(items) ==
    IF items = <<>> THEN 0
    ELSE computed_price(Head(items)) + SumPrices(Tail(items))

\* Cart.total()
total(u) == SumPrices(cart[u].items)

\* ---------------------------------------------------------- slot ledger

SameSlot(a, c, d, t) == a.category = c /\ a.date = d /\ a.time = t

\* The table without its unique index: no insert is ever refused.
UniqueViolationUnenforced(appts, c, d, t) == FALSE

\* unique_together = ('category', 'date', 'time'): the insert is refused
\* when a row with the triple is there.
UniqueViolation(appts, c, d, t) == \E a \in appts : SameSlot(a, c, d, t)

\* A save() that writes the price the row came with.
saveWithGivenPrice(a) == a

\* Appointment.save(): total_price is recomputed from the category's
\* price as it is now, then the row is written.
save(a) ==
    [a EXCEPT !.total_price = compute_price(price[a.category], a.duration)]

\* Appointment.objects.create(...): a row with the field's default price
\* (0.00), saved.
NewAppointment(u, c, d, t, dur, paid) ==
    save([user |-> u, category |-> c, date |-> d, time |-> t,
          duration |-> dur, total_price |-> 0, is_paid |-> paid])

\* AppointmentAdmin: an admin changes an appointment's duration to
\* another of the choices and saves it.
AdminChangeDuration(a, dur) ==
    /\ a \in appointments
    /\ dur \in DURATION_CHOICES
    /\ dur # a.duration
    /\ appointments' = (appointments \ {a})
                           \cup {save([a EXCEPT !.duration = dur])}
    /\ UNCHANGED <<dom, price, book, cart, orders, orderItems, nextOrder,
                   ck, intents, stripeCalls, wh, resp>>

\* validate_date refusing today as well.
validate_dateFutureOnly(value) == ~(value <= Today)

validate_date(value) == ~(value < Today)

validate_time(value) == WORKING_HOURS_START <= value /\ value < WORKING_HOURS_END

validate_duration(value) == value \in {15, 30, 60, 120}

\* (datetime.combine(today, time) + timedelta(minutes=duration)).time()
appt_end(t, duration) == (t + duration) % MinutesPerDay

EndsAfterHours(t, duration) == appt_end(t, duration) > WORKING_HOURS_END

\* The availability check without the category filter.
SlotBookedAnyCategory(appts, c, d, t) ==
    \E a \in appts : a.date = d /\ a.time = t

\* qs.exists() of CreateAppointmentSerializer.validate
SlotBooked(appts, c, d, t) == \E a \in appts : SameSlot(a, c, d, t)

\* The validator a ModelSerializer derives from unique_together: a lookup
\* of the triple, run after the field validators and before validate().
UniqueTogetherValidator(appts, c, d, t) == \E a \in appts : SameSlot(a, c, d, t)

\* CreateAppointmentSerializer: the field validators, the validator of
\* unique_together, then validate().
ValidateBooking(appts, r) ==
    IF ~(validate_date(r.date) /\ validate_time(r.time)
         /\ r.duration \in DURATION_CHOICES /\ validate_duration(r.duration))
    THEN "ValidationError"
    ELSE IF UniqueTogetherValidator(appts, r.category, r.date, r.time)
    THEN "SlotConflict"
    ELSE IF EndsAfterHours(r.time, r.duration) THEN "ValidationError"
    ELSE IF SlotBooked(appts, r.category, r.date, r.time) THEN "SlotConflict"
    ELSE "ok"

\* AppointmentCreateView.create, up to serializer.is_valid().
BookValidate(u, r) ==
    /\ book[u].pc = "idle"
    /\ LET out == ValidateBooking(appointments, r) IN
       IF out = "ok"
       THEN /\ book' = [book EXCEPT ![u] = [pc |-> "validated", req |-> r]]
            /\ UNCHANGED resp
       ELSE /\ resp' = Response("book", u, out)
            /\ UNCHANGED book
    /\ UNCHANGED <<dom, price, appointments, cart, orders, orderItems,
                   nextOrder, ck, intents, stripeCalls, wh>>

\* AppointmentCreateView.create, serializer.save(): the INSERT.
BookCreate(u) ==
    /\ book[u].pc = "validated"
    /\ LET r == book[u].req IN
       IF UniqueViolation(appointments, r.category, r.date, r.time)
       THEN /\ resp' = Response("book", u, "IntegrityError")
            /\ UNCHANGED appointments
       ELSE /\ appointments' = appointments \cup
                  {NewAppointment(u, r.category, r.date, r.time,
                                  r.duration, FALSE)}
            /\ resp' = Response("book", u, "Created")
    /\ book' = [book EXCEPT ![u] = [pc |-> "idle", req |-> NoReq]]
    /\ UNCHANGED <<dom, price, cart, orders, orderItems, nextOrder, ck,
                   intents, stripeCalls, wh>>

\* A detail view over every user's appointments.
get_querysetOfAll(u) == appointments

\* AppointmentDetailView.get_queryset: the requesting user's rows.
get_queryset(u) == {a \in appointments : a.user = u}

\* A destroy that deletes whatever get_object() returns.
CancelWithoutPaidCheck(u, a) ==
    /\ a \in appointments
    /\ IF a \notin get_queryset(u)
       THEN /\ resp' = Response("cancel", u, "NotFound")
            /\ UNCHANGED appointments
       ELSE /\ appointments' = appointments \ {a}
            /\ resp' = Response("cancel", u, "Cancelled")
    /\ UNCHANGED <<dom, price, book, cart, orders, orderItems, nextOrder,
                   ck, intents, stripeCalls, wh>>

\* AppointmentDetailView.destroy
Cancel(u, a) ==
    /\ a \in appointments
    /\ IF a \notin get_queryset(u)
       THEN /\ resp' = Response("cancel", u, "NotFound")
            /\ UNCHANGED appointments
       ELSE IF a.is_paid
       THEN /\ resp' = Response("cancel", u, "PaidAppointmentImmutable")
            /\ UNCHANGED appointments
       ELSE /\ appointments' = appointments \ {a}
            /\ resp' = Response("cancel", u, "Cancelled")
    /\ UNCHANGED <<dom, price, book, cart, orders, orderItems, nextOrder,
                   ck, intents, stripeCalls, wh>>

\* A response that carries serialized appointments.
Page(op, u, rows) ==
    [op |-> op, user |-> u, outcome |-> "ok", body |-> rows]

\* AppointmentDetailView GET: get_object() over get_queryset(), a 404
\* when the row is not among the user's.
Retrieve(u, a) ==
    /\ a \in appointments
    /\ resp' = IF a \notin get_queryset(u)
               THEN Response("retrieve", u, "NotFound")
               ELSE Page("retrieve", u, {a})
    /\ UNCHANGED <<dom, price, appointments, book, cart, orders, orderItems,
                   nextOrder, ck, intents, stripeCalls, wh>>

\* AppointmentHistoryView.get_queryset: the requesting user's rows (the
\* page's rows, their order aside).
history_queryset(u) == {a \in appointments : a.user = u}

\* AppointmentHistoryView GET
History(u) ==
    /\ resp' = Page("history", u, history_queryset(u))
    /\ UNCHANGED <<dom, price, appointments, book, cart, orders, orderItems,
                   nextOrder, ck, intents, stripeCalls, wh>>

\* CategoryAdminDetailView: an admin changes a category's price.
SetPrice(c, p) ==
    /\ price[c] # p
    /\ price' = [price EXCEPT ![c] = p]
    /\ UNCHANGED <<dom, appointments, book, cart, orders, orderItems,
                   nextOrder, ck, intents, stripeCalls, wh, resp>>

\* ----------------------------------------------------------------- cart

\* The cart's guard without the is_paid filter.
PaidSlotBookedAnyAppointment(appts, c, d, t) ==
    \E a \in appts : SameSlot(a, c, d, t)

\* Appointment.objects.filter(category, date, time, is_paid=True).exists()
PaidSlotBooked(appts, c, d, t) ==
    \E a \in appts : SameSlot(a, c, d, t) /\ a.is_paid

\* AddToCartSerializer: validate_date, validate_duration, then validate().
\* The serializer has no validate_time and no end-time check.
ValidateAddToCart(appts, r) ==
    IF ~(validate_date(r.date) /\ r.duration \in DURATION_CHOICES
         /\ validate_duration(r.duration))
    THEN "ValidationError"
    ELSE IF PaidSlotBooked(appts, r.category, r.date, r.time)
    THEN "SlotConflict"
    ELSE "ok"

\* UpdateCartItemSerializer (partial=True): validate_duration, then
\* validate() on the triple the item would have; r is the item as the
\* patch leaves it.  exclude(pk=None) excludes no row.
ValidateUpdateCartItem(appts, r) ==
    IF ~(r.duration \in DURATION_CHOICES /\ validate_duration(r.duration))
    THEN "ValidationError"
    ELSE IF PaidSlotBooked(appts, r.category, r.date, r.time)
    THEN "SlotConflict"
    ELSE "ok"

CartUnchanged == UNCHANGED <<dom, price, appointments, book, orders,
                             orderItems, nextOrder, ck, intents,
                             stripeCalls, wh>>

\* CartView.get: creates the cart on first use.
CartGet(u) ==
    /\ cart' = [cart EXCEPT ![u].exists = TRUE]
    /\ resp' = Response("cart_get", u, "ok")
    /\ CartUnchanged

\* CartView.post
CartAdd(u, r) ==
    /\ LET out == ValidateAddToCart(appointments, r) IN
       IF out = "ok"
       THEN /\ Len(cart[u].items) < dom.maxCartItems
            /\ cart' = [cart EXCEPT ![u] =
                          [exists |-> TRUE, items |-> Append(@.items, r)]]
            /\ resp' = Response("cart_add", u, "Created")
       ELSE /\ resp' = Response("cart_add", u, out)
            /\ UNCHANGED cart
    /\ CartUnchanged

\* CartItemView.patch; i is the item's place in the cart.
CartUpdate(u, i, r) ==
    /\ IF i > Len(cart[u].items)
       THEN /\ resp' = Response("cart_update", u, "NotFound")
            /\ UNCHANGED cart
       ELSE LET out == ValidateUpdateCartItem(appointments, r) IN
            IF out = "ok"
            THEN /\ cart' = [cart EXCEPT ![u].items[i] = r]
                 /\ resp' = Response("cart_update", u, "Updated")
            ELSE /\ resp' = Response("cart_update", u, out)
                 /\ UNCHANGED cart
    /\ CartUnchanged

RemoveAt(s, i) == [j \in 1..(Len(s) - 1) |-> IF j < i THEN s[j] ELSE s[j + 1]]

\* CartItemView.delete
CartRemove(u, i) ==
    /\ IF i > Len(cart[u].items)
       THEN /\ resp' = Response("cart_remove", u, "NotFound")
            /\ UNCHANGED cart
       ELSE /\ cart' = [cart EXCEPT ![u].items = RemoveAt(@, i)]
            /\ resp' = Response("cart_remove", u, "Removed")
    /\ CartUnchanged

\* ClearCartView.delete
CartClear(u) ==
    /\ cart' = [cart EXCEPT ![u].items = <<>>]
    /\ resp' = Response("cart_clear", u, "ok")
    /\ CartUnchanged

\* CartAdmin: an admin deletes a user's Cart row, and its items with it.
AdminDeleteCart(u) ==
    /\ cart[u].exists
    /\ cart' = [cart EXCEPT ![u] = [exists |-> FALSE, items |-> <<>>]]
    /\ UNCHANGED <<dom, price, appointments, book, orders, orderItems,
                   nextOrder, ck, intents, stripeCalls, wh, resp>>

\* ------------------------------------------------------------- checkout

NoAppointment == <<>>

\* OrderItem.objects.create(...) for one cart item.
NewOrderItem(item) ==
    [category |-> item.category, category_name |-> item.category,
     date |-> item.date, time |-> item.time, duration |-> item.duration,
     unit_price |-> price[item.category],
     total_price |-> computed_price(item),
     appointment |-> NoAppointment]

\* Order.objects.create(user, total_amount, status='pending')
NewOrder(u, amount) ==
    [user |-> u, total_amount |-> amount, status |-> "pending",
     intent |-> 0]

InsertOrder(id, row) ==
    [k \in DOMAIN orders \cup {id} |-> IF k = id THEN row ELSE orders[k]]

\* The failure branch without order.delete().
DeleteOrderSkipped(id) == orders

\* order.delete(): the Order row.
DeleteOrder(id) == [k \in DOMAIN orders \ {id} |-> orders[k]]

\* OrderItem.order is on_delete=CASCADE: the order's items go with it.
CascadeOrderItems(id) == [k \in DOMAIN orderItems \ {id} |-> orderItems[k]]

\* order.items.all()
ItemsOf(id) == IF id \in DOMAIN orderItems THEN orderItems[id] ELSE <<>>

\* The check of the total letting a zero total through.
InvalidTotalNegativeOnly(amount) == amount < 0

\* `if total <= 0` of CreateCheckoutSessionView.post
InvalidTotal(amount) == amount <= 0

\* A checkout that empties the carts as it goes.
CheckoutUnchangedButCarts ==
    /\ UNCHANGED <<dom, price, appointments, book, wh>>
    /\ cart' = [u \in Users |-> [cart[u] EXCEPT !.items = <<>>]]

CheckoutUnchanged == UNCHANGED <<dom, price, appointments, book, cart, wh>>

\* CreateCheckoutSessionView.post: request.user.cart and items.exists().
CkStart(u) ==
    /\ ck[u].pc = "idle"
    /\ nextOrder <= dom.maxOrders
    /\ IF ~cart[u].exists \/ cart[u].items = <<>>
       THEN /\ resp' = Response("checkout", u, "EmptyCart")
            /\ UNCHANGED ck
       ELSE /\ ck' = [ck EXCEPT ![u].pc = "total"]
            /\ UNCHANGED resp
    /\ UNCHANGED <<orders, orderItems, nextOrder, intents, stripeCalls>>
    /\ CheckoutUnchanged

\* cart.total(), the check of the total, Order.objects.create.
CkTotal(u) ==
    /\ ck[u].pc = "total"
    /\ LET amount == total(u) IN
       IF InvalidTotal(amount)
       THEN /\ resp' = Response("checkout", u, "InvalidTotal")
            /\ ck' = [ck EXCEPT ![u].pc = "idle"]
            /\ UNCHANGED <<orders, nextOrder>>
       ELSE /\ nextOrder <= dom.maxOrders
            /\ orders' = InsertOrder(nextOrder, NewOrder(u, amount))
            /\ nextOrder' = nextOrder + 1
            /\ ck' = [ck EXCEPT ![u] = [pc |-> "items", order |-> nextOrder,
                                        total |-> amount]]
            /\ UNCHANGED resp
    /\ UNCHANGED <<orderItems, intents, stripeCalls>>
    /\ CheckoutUnchanged

\* `for item in items`: the queryset is evaluated here, and one OrderItem
\* is created per cart item it returns.
CkItems(u) ==
    /\ ck[u].pc = "items"
    /\ orderItems' =
          [k \in DOMAIN orderItems \cup {ck[u].order} |->
              IF k = ck[u].order
              THEN [i \in 1..Len(cart[u].items) |->
                       NewOrderItem(cart[u].items[i])]
              ELSE orderItems[k]]
    /\ ck' = [ck EXCEPT ![u].pc = "stripe"]
    /\ UNCHANGED <<orders, nextOrder, intents, stripeCalls, resp>>
    /\ CheckoutUnchanged

\* stripe.PaymentIntent.create: the provider answers, or raises
\* StripeError and the order is deleted.
CkStripe(u, ok) ==
    /\ ck[u].pc = "stripe"
    /\ stripeCalls' = stripeCalls \cup {ck[u].order}
    /\ IF ok
       THEN /\ intents' = intents \cup {ck[u].order}
            /\ ck' = [ck EXCEPT ![u].pc = "save"]
            /\ UNCHANGED <<orders, orderItems, resp>>
       ELSE /\ orders' = DeleteOrder(ck[u].order)
            /\ orderItems' = CascadeOrderItems(ck[u].order)
            /\ resp' = Response("checkout", u, "UpstreamPaymentError")
            /\ ck' = [ck EXCEPT ![u] = [pc |-> "idle", order |-> 0,
                                        total |-> 0]]
            /\ UNCHANGED intents
    /\ UNCHANGED nextOrder
    /\ CheckoutUnchanged

\* An order.save() that writes the cart's total as it is now.
CkSaveWithLiveTotal(u) ==
    /\ ck[u].pc = "save"
    /\ orders' = [orders EXCEPT ![ck[u].order] =
                    [@ EXCEPT !.user = u, !.total_amount = total(u),
                              !.status = "pending",
                              !.intent = ck[u].order]]
    /\ resp' = Response("checkout", u, "ClientSecret")
    /\ ck' = [ck EXCEPT ![u] = [pc |-> "idle", order |-> 0, total |-> 0]]
    /\ UNCHANGED <<orderItems, nextOrder, intents, stripeCalls>>
    /\ CheckoutUnchanged

\* order.stripe_payment_intent_id = intent.id; order.save(): the UPDATE
\* writes every column of the request's own copy of the order, status
\* 'pending' included.
CkSave(u) ==
    /\ ck[u].pc = "save"
    /\ orders' = [orders EXCEPT ![ck[u].order] =
                    [@ EXCEPT !.user = u, !.total_amount = ck[u].total,
                              !.status = "pending",
                              !.intent = ck[u].order]]
    /\ resp' = Response("checkout", u, "ClientSecret")
    /\ ck' = [ck EXCEPT ![u] = [pc |-> "idle", order |-> 0, total |-> 0]]
    /\ UNCHANGED <<orderItems, nextOrder, intents, stripeCalls>>
    /\ CheckoutUnchanged

\* -------------------------------------------------------------- webhook

EventTypes == {"payment_intent.succeeded", "payment_intent.payment_failed"}

\* The deliveries that can arrive: the provider signs events only for
\* the intents it holds (and may deliver each any number of times);
\* anyone can post an event with a signature that does not verify.
Events ==
    [type : EventTypes, order_id : intents, valid : {TRUE}]
    \cup [type : EventTypes, order_id : 1..dom.maxOrders, valid : {FALSE}]

\* A webhook that takes every event as signed.
construct_eventUnverified(ev) == TRUE

\* stripe.Webhook.construct_event: the signature verifies against the
\* endpoint's secret.
construct_event(ev) == ev.valid

\* The order lookup without the status filter.
PendingOrderAnyStatus(id) == id \in DOMAIN orders

\* Order.objects.get(pk=order_id, status='pending') finds a row.
PendingOrder(id) == id \in DOMAIN orders /\ orders[id].status = "pending"

\* The UPDATE without its status filter.
MarkFailedAnyStatus(id) ==
    IF id \in DOMAIN orders
    THEN [orders EXCEPT ![id].status = "failed"]
    ELSE orders

\* Order.objects.filter(pk=order_id, status='pending')
\*     .update(status='failed'): one UPDATE of the status column.
MarkFailed(id) ==
    IF PendingOrder(id)
    THEN [orders EXCEPT ![id].status = "failed"]
    ELSE orders

IdleHandler == [pc |-> "idle", order |-> 0, intent |-> 0, todo |-> <<>>]

WebhookUnchanged == UNCHANGED <<dom, price, book, nextOrder, ck, intents,
                                stripeCalls>>

\* StripeWebhookView.post: construct_event, then the event's branch up
\* to the order lookup.  The payment_failed branch is one UPDATE.
WhReceive(h, ev) ==
    /\ wh[h].pc = "idle"
    /\ IF ~construct_event(ev)
       THEN /\ resp' = Response("webhook", h, "InvalidSignature")
            /\ UNCHANGED <<orders, wh>>
       ELSE IF ev.type = "payment_intent.succeeded"
       THEN IF PendingOrder(ev.order_id)
            THEN /\ wh' = [wh EXCEPT ![h] =
                             [pc |-> "found", order |-> ev.order_id,
                              intent |-> orders[ev.order_id].intent,
                              todo |-> <<>>]]
                 /\ UNCHANGED <<orders, resp>>
            ELSE /\ resp' = Response("webhook", h, "OrderNotFound")
                 /\ UNCHANGED <<orders, wh>>
       ELSE /\ orders' = MarkFailed(ev.order_id)
            /\ resp' = Response("webhook", h, "ok")
            /\ UNCHANGED wh
    /\ UNCHANGED <<appointments, cart, orderItems>>
    /\ WebhookUnchanged

\* order.status = 'paid'; order.save(): the UPDATE writes every column of
\* the handler's copy of the order.  The loop's queryset over the
\* order's items is evaluated next.
WhMarkPaid(h) ==
    /\ wh[h].pc = "found"
    /\ orders' = [orders EXCEPT ![wh[h].order] =
                    [@ EXCEPT !.status = "paid", !.intent = wh[h].intent]]
    /\ wh' = [wh EXCEPT ![h].pc = "items",
                        ![h].todo = [i \in 1..Len(ItemsOf(wh[h].order))
                                       |-> i]]
    /\ UNCHANGED <<appointments, cart, orderItems, resp>>
    /\ WebhookUnchanged

\* The lookup of Appointment.objects.get_or_create(category, date, time).
SlotHeld(appts, c, d, t) == \E a \in appts : SameSlot(a, c, d, t)

\* The row replaced by the defaults when the slot is held.
update_or_create(appts, row) ==
    {a \in appts : ~SameSlot(a, row.category, row.date, row.time)}
        \cup {row}

\* Appointment.objects.get_or_create(category, date, time, defaults): the
\* row found, or the INSERT (refused by the unique index when the row is
\* there after all, and then the row is fetched).
get_or_create(appts, row) ==
    IF \/ SlotHeld(appts, row.category, row.date, row.time)
       \/ UniqueViolation(appts, row.category, row.date, row.time)
    THEN appts
    ELSE appts \cup {row}

\* A loop that never links the appointment it created.
LinkAppointmentSkipped(oi, created) == oi

\* `if created: oi.appointment = appt; oi.save()`, else `pass`.
LinkAppointment(oi, created) ==
    IF created
    THEN [oi EXCEPT !.appointment = <<oi.category, oi.date, oi.time>>]
    ELSE oi

\* One turn of the loop over the order's items.
WhItem(h) ==
    /\ wh[h].pc = "items"
    /\ wh[h].todo # <<>>
    /\ LET id  == wh[h].order
           i   == Head(wh[h].todo)
           oi  == orderItems[id][i]
           row == NewAppointment(orders[id].user, oi.category, oi.date,
                                 oi.time, oi.duration, TRUE)
           created == ~SlotHeld(appointments, oi.category, oi.date, oi.time)
       IN /\ appointments' = get_or_create(appointments, row)
          /\ orderItems' = [orderItems EXCEPT ![id][i] =
                               LinkAppointment(oi, created)]
    /\ wh' = [wh EXCEPT ![h].todo = Tail(@)]
    /\ UNCHANGED <<orders, cart, resp>>
    /\ WebhookUnchanged

\* A delivery that keeps the cart when an item of the order is unlinked.
WhClearCartUnlessConflict(h) ==
    /\ wh[h].pc = "items"
    /\ wh[h].todo = <<>>
    /\ cart' = IF \E i \in 1..Len(ItemsOf(wh[h].order)) :
                     ItemsOf(wh[h].order)[i].appointment = NoAppointment
               THEN cart
               ELSE [cart EXCEPT ![orders[wh[h].order].user].items = <<>>]
    /\ resp' = Response("webhook", h, "ok")
    /\ wh' = [wh EXCEPT ![h] = IdleHandler]
    /\ UNCHANGED <<appointments, orders, orderItems>>
    /\ WebhookUnchanged

\* order.user.cart.items.all().delete() (a missing cart is passed over),
\* then Response({'status': 'ok'}).
WhClearCart(h) ==
    /\ wh[h].pc = "items"
    /\ wh[h].todo = <<>>
    /\ cart' = [cart EXCEPT ![orders[wh[h].order].user].items = <<>>]
    /\ resp' = Response("webhook", h, "ok")
    /\ wh' = [wh EXCEPT ![h] = IdleHandler]
    /\ UNCHANGED <<appointments, orders, orderItems>>
    /\ WebhookUnchanged

\* A handler whose run was cut short: the request is over and nothing
\* it did is taken back, each statement having been committed on its own.
AbortedHandler == [pc |-> "aborted", order |-> 0, intent |-> 0, todo |-> <<>>]

\* The run of StripeWebhookView.post ends between two of its statements
\* (the worker is stopped, or a statement raises): after the order
\* lookup, after order.save(), between two items or before the cart is
\* cleared.  The provider gets no acknowledgment and delivers again.
WhAbort(h) ==
    /\ wh[h].pc \in {"found", "items"}
    /\ wh' = [wh EXCEPT ![h] = AbortedHandler]
    /\ resp' = Response("webhook", h, "Aborted")
    /\ UNCHANGED <<appointments, cart, orders, orderItems>>
    /\ WebhookUnchanged

\* ------------------------------------------------------------ the state

NoResponse == Response("none", "none", "none")

IdleBook == [pc |-> "idle", req |-> NoReq]

IdleCheckout == [pc |-> "idle", order |-> 0, total |-> 0]

InitState(d, appts) ==
    /\ dom = d
    /\ price = [c \in Categories |-> InitialPrice]
    /\ appointments = appts
    /\ book = [u \in Users |-> IdleBook]
    /\ cart = [u \in Users |-> [exists |-> FALSE, items |-> <<>>]]
    /\ orders = [k \in {} |-> 0]
    /\ orderItems = [k \in {} |-> 0]
    /\ nextOrder = 1
    /\ ck = [u \in Users |-> IdleCheckout]
    /\ intents = {}
    /\ stripeCalls = {}
    /\ wh = [h \in Handlers |-> IdleHandler]
    /\ resp = NoResponse

\* ------------------------------------------------------- the processes

BookingNext ==
    \/ \E u \in dom.bookers : \E r \in Requests : BookValidate(u, r)
    \/ \E u \in dom.bookers : BookCreate(u)
    \/ \E u \in dom.bookers : \E a \in appointments : Cancel(u, a)

ReadNext ==
    \/ \E u \in dom.bookers : \E a \in appointments : Retrieve(u, a)
    \/ \E u \in dom.bookers : History(u)

AdminNext == \E c \in dom.categories : \E p \in dom.prices : SetPrice(c, p)

CartAddNext == \E u \in dom.shoppers : \E r \in Requests : CartAdd(u, r)

CartEditNext ==
    \/ \E u \in dom.shoppers : CartGet(u)
    \/ \E u \in dom.shoppers : \E i \in 1..dom.maxCartItems : \E r \in Requests :
          CartUpdate(u, i, r)
    \/ \E u \in dom.shoppers : \E i \in 1..dom.maxCartItems : CartRemove(u, i)
    \/ \E u \in dom.shoppers : CartClear(u)

CheckoutNext ==
    \/ \E u \in dom.shoppers : CkStart(u)
    \/ \E u \in dom.shoppers : CkTotal(u)
    \/ \E u \in dom.shoppers : CkItems(u)
    \/ \E u \in dom.shoppers : \E ok \in BOOLEAN : CkStripe(u, ok)
    \/ \E u \in dom.shoppers : CkSave(u)

AppointmentAdminNext ==
    \E a \in appointments : \E dur \in dom.durations :
        AdminChangeDuration(a, dur)

CartAdminNext == \E u \in dom.shoppers : AdminDeleteCart(u)

WebhookNext ==
    \/ \E h \in dom.handlers : \E ev \in Events : WhReceive(h, ev)
    \/ \E h \in dom.handlers : WhMarkPaid(h)
    \/ \E h \in dom.handlers : WhItem(h)
    \/ \E h \in dom.handlers : WhClearCart(h)

\* The delivery on handler h1 may be cut short; the redeliveries that
\* follow run on the other handlers.
AbortNext == \E h \in dom.handlers \cap {"h1"} : WhAbort(h)

\* The provider delivers the signed succeeded event of an intent again.
Redelivery ==
    \E h \in dom.handlers : \E ev \in Events :
        /\ ev.valid
        /\ ev.type = "payment_intent.succeeded"
        /\ WhReceive(h, ev)

\* A handler that is past the order lookup takes its next step.
HandlerStep(h) == WhMarkPaid(h) \/ WhItem(h) \/ WhClearCart(h)

\* Caps of the ledger scenario: items per cart, orders ever created
\* (order ids are not reused).
LedgerCartItems == 1
LedgerOrders == 1

\* The slot ledger under every writer: two users booking directly and
\* cancelling, one of them also shopping and paying, one webhook handler.
\* One category, date and start time: every request competes for the
\* same slot.
LedgerDom ==
    [bookers |-> Users, shoppers |-> {"u1"}, handlers |-> {"h1"},
     categories |-> {"Immigration"}, dates |-> {Today + 1},
     times |-> {10 * 60}, durations |-> {60}, prices |-> {},
     maxCartItems |-> LedgerCartItems, maxOrders |-> LedgerOrders]

Init == InitState(LedgerDom, {})

Next == BookingNext \/ CartAddNext \/ CheckoutNext \/ WebhookNext

Spec == Init /\ [][Next]_vars

\* Two users booking directly and cancelling, on one start time of
\* tomorrow in either category, for 15 or 60 minutes.
BookingDom ==
    [bookers |-> Users, shoppers |-> {}, handlers |-> {},
     categories |-> Categories, dates |-> {Today + 1}, times |-> {10 * 60},
     durations |-> {15, 60}, prices |-> {},
     maxCartItems |-> 0, maxOrders |-> 0]

InitBooking == InitState(BookingDom, {})

SpecBooking == InitBooking /\ [][BookingNext]_vars

\* One user booking directly, with requests on both sides of every
\* validation boundary: yesterday, today and tomorrow; 08:59, 09:00,
\* 16:00, 17:59 and 18:00; 15, 30, 45, 60 and 120 minutes.
ValidationDom ==
    [bookers |-> {"u1"}, shoppers |-> {}, handlers |-> {},
     categories |-> {"Immigration"},
     dates |-> {Today - 1, Today, Today + 1},
     times |-> {8 * 60 + 59, 9 * 60, 16 * 60, 17 * 60 + 59, 18 * 60},
     durations |-> {15, 30, 45, 60, 120}, prices |-> {},
     maxCartItems |-> 0, maxOrders |-> 0]

InitValidation == InitState(ValidationDom, {})

SpecValidation == InitValidation /\ [][BookingNext]_vars

\* Cap of the cart scenario: items per cart.
CartItems == 2

\* One user editing a cart, with requests for tomorrow at 08:00 and
\* 10:00, for 15, 45 and 60 minutes, in either category.
CartDom ==
    [bookers |-> {}, shoppers |-> {"u1"}, handlers |-> {},
     categories |-> Categories, dates |-> {Today + 1},
     times |-> {8 * 60, 10 * 60}, durations |-> {15, 45, 60},
     prices |-> {},
     maxCartItems |-> CartItems, maxOrders |-> 0]

\* The store the cart scenario starts from: u2 has booked Family Law at
\* 10:00 tomorrow directly (unpaid), and has bought Immigration at 10:00
\* tomorrow through cart, checkout and settlement (paid, cart cleared),
\* and has since put the slot of the direct booking in the cart.
SettledAppointment ==
    [user |-> "u2", category |-> "Immigration", date |-> Today + 1,
     time |-> 10 * 60, duration |-> 60,
     total_price |-> compute_price(InitialPrice, 60), is_paid |-> TRUE]

DirectAppointment ==
    [user |-> "u2", category |-> "Family Law", date |-> Today + 1,
     time |-> 10 * 60, duration |-> 60,
     total_price |-> compute_price(InitialPrice, 60), is_paid |-> FALSE]

SettledOrderItem ==
    [category |-> "Immigration", category_name |-> "Immigration",
     date |-> Today + 1, time |-> 10 * 60, duration |-> 60,
     unit_price |-> InitialPrice,
     total_price |-> compute_price(InitialPrice, 60),
     appointment |-> <<"Immigration", Today + 1, 10 * 60>>]

HeldCartItem ==
    [category |-> "Family Law", date |-> Today + 1, time |-> 10 * 60,
     duration |-> 60]

InitCart ==
    /\ dom = CartDom
    /\ price = [c \in Categories |-> InitialPrice]
    /\ appointments = {SettledAppointment, DirectAppointment}
    /\ book = [u \in Users |-> IdleBook]
    /\ cart = [u \in Users |->
                 IF u = "u2"
                 THEN [exists |-> TRUE, items |-> <<HeldCartItem>>]
                 ELSE [exists |-> FALSE, items |-> <<>>]]
    /\ orders = [k \in {1} |->
                    [user |-> "u2",
                     total_amount |-> compute_price(InitialPrice, 60),
                     status |-> "paid", intent |-> 1]]
    /\ orderItems = [k \in {1} |-> <<SettledOrderItem>>]
    /\ nextOrder = 2
    /\ ck = [u \in Users |-> IdleCheckout]
    /\ intents = {1}
    /\ stripeCalls = {1}
    /\ wh = [h \in Handlers |-> IdleHandler]
    /\ resp = NoResponse

SpecCart == InitCart /\ [][CartAddNext \/ CartEditNext]_vars

\* Cap of the repricing scenario: items per cart.
PricedCartItems == 2

\* One user editing a cart while an admin reprices either category to
\* 0.00 or 15.00; items of 15 and 60 minutes.
PricedCartDom ==
    [bookers |-> {}, shoppers |-> {"u1"}, handlers |-> {},
     categories |-> Categories, dates |-> {Today + 1},
     times |-> {10 * 60}, durations |-> {15, 60},
     prices |-> {0, 15 * 100},
     maxCartItems |-> PricedCartItems, maxOrders |-> 0]

InitPricedCart == InitState(PricedCartDom, {})

SpecPricedCart ==
    InitPricedCart /\ [][CartAddNext \/ CartEditNext \/ AdminNext]_vars

\* Caps of the checkout scenario: items per cart, orders ever created.
CheckoutCartItems == 1
CheckoutOrders == 1

\* One user filling a cart and checking out while an admin reprices
\* (to 0.00) and the provider answers or fails.
CheckoutDom ==
    [bookers |-> {}, shoppers |-> {"u1"}, handlers |-> {},
     categories |-> {"Immigration"}, dates |-> {Today + 1},
     times |-> {10 * 60}, durations |-> {15, 60},
     prices |-> {0},
     maxCartItems |-> CheckoutCartItems, maxOrders |-> CheckoutOrders]

InitCheckout == InitState(CheckoutDom, {})

SpecCheckout ==
    InitCheckout
    /\ [][CartAddNext \/ CartEditNext \/ AdminNext \/ CheckoutNext]_vars

\* Cap of the settlement scenario: order ids an event can name.
SettlementOrders == 1

\* Settlement of one order under two concurrent webhook deliveries while
\* another user books and cancels the slots the order's items are on and
\* an admin may delete the buyer's cart.
SettlementDom ==
    [bookers |-> {"u2"}, shoppers |-> {"u1"}, handlers |-> Handlers,
     categories |-> Categories, dates |-> {Today + 1},
     times |-> {10 * 60}, durations |-> {60}, prices |-> {},
     maxCartItems |-> 0, maxOrders |-> SettlementOrders]

\* The cart u1 checked out: both categories at 10:00 tomorrow.
CheckedOutCart ==
    <<[category |-> "Immigration", date |-> Today + 1, time |-> 10 * 60,
       duration |-> 15],
      [category |-> "Family Law", date |-> Today + 1, time |-> 10 * 60,
       duration |-> 30]>>

\* The store after u1's checkout went through: order 1 pending with its
\* intent and one item per cart item, the cart as it was.
CheckedOutState(d, appts) ==
    /\ dom = d
    /\ price = [c \in Categories |-> InitialPrice]
    /\ appointments = appts
    /\ book = [u \in Users |-> IdleBook]
    /\ cart = [u \in Users |->
                 IF u = "u1"
                 THEN [exists |-> TRUE, items |-> CheckedOutCart]
                 ELSE [exists |-> FALSE, items |-> <<>>]]
    /\ orders = [k \in {1} |->
                    [user |-> "u1",
                     total_amount |-> compute_price(InitialPrice, 15)
                                      + compute_price(InitialPrice, 30),
                     status |-> "pending", intent |-> 1]]
    /\ orderItems = [k \in {1} |->
                        [i \in 1..Len(CheckedOutCart) |->
                            [category |-> CheckedOutCart[i].category,
                             category_name |-> CheckedOutCart[i].category,
                             date |-> CheckedOutCart[i].date,
                             time |-> CheckedOutCart[i].time,
                             duration |-> CheckedOutCart[i].duration,
                             unit_price |-> InitialPrice,
                             total_price |->
                                 compute_price(InitialPrice,
                                               CheckedOutCart[i].duration),
                             appointment |-> NoAppointment]]]
    /\ nextOrder = 2
    /\ ck = [u \in Users |-> IdleCheckout]
    /\ intents = {1}
    /\ stripeCalls = {1}
    /\ wh = [h \in Handlers |-> IdleHandler]
    /\ resp = NoResponse

InitSettlement == CheckedOutState(SettlementDom, {})

SpecSettlement ==
    InitSettlement /\ [][BookingNext \/ WebhookNext \/ CartAdminNext]_vars

\* Cap of the redelivery scenario: order ids an event can name.
RedeliveryOrders == 1

\* Deliveries only: two handlers on the events of one order.
RedeliveryDom ==
    [bookers |-> {}, shoppers |-> {}, handlers |-> Handlers,
     categories |-> Categories, dates |-> {Today + 1},
     times |-> {10 * 60}, durations |-> {60}, prices |-> {},
     maxCartItems |-> 0, maxOrders |-> RedeliveryOrders]

\* The store of the settlement scenario after u2 has booked Family Law
\* at 10:00 tomorrow directly: the second item's slot is taken.
InitRedelivery == CheckedOutState(RedeliveryDom, {DirectAppointment})

SpecRedelivery == InitRedelivery /\ [][WebhookNext]_vars

\* Two users booking, cancelling, retrieving and listing appointments
\* on the slots of two categories.
OwnershipDom ==
    [bookers |-> Users, shoppers |-> {}, handlers |-> {},
     categories |-> Categories, dates |-> {Today + 1}, times |-> {10 * 60},
     durations |-> {15}, prices |-> {},
     maxCartItems |-> 0, maxOrders |-> 0]

InitOwnership == InitState(OwnershipDom, {})

SpecOwnership == InitOwnership /\ [][BookingNext \/ ReadNext]_vars

\* Caps of the cart-to-ledger scenario: items per cart, orders ever
\* created.
CartSettlementItems == 2
CartSettlementOrders == 1

\* The whole path from cart to ledger: u1 fills and edits a cart of
\* Immigration hours at 08:00 or 10:00 tomorrow, checks out, and one
\* handler settles the order, while u2 books the same slots directly.
CartSettlementDom ==
    [bookers |-> {"u2"}, shoppers |-> {"u1"}, handlers |-> {"h1"},
     categories |-> {"Immigration"}, dates |-> {Today + 1},
     times |-> {8 * 60, 10 * 60}, durations |-> {60}, prices |-> {},
     maxCartItems |-> CartSettlementItems,
     maxOrders |-> CartSettlementOrders]

InitCartSettlement == InitState(CartSettlementDom, {})

SpecCartSettlement ==
    InitCartSettlement
    /\ [][BookingNext \/ CartAddNext \/ CartEditNext \/ CheckoutNext
             \/ WebhookNext]_vars

\* Cap of the recovery scenario: order ids an event can name.
RecoveryOrders == 1

\* Deliveries of the events of u1's order on two handlers, the run on
\* h1 possibly cut short.
RecoveryDom ==
    [bookers |-> {}, shoppers |-> {}, handlers |-> Handlers,
     categories |-> Categories, dates |-> {Today + 1},
     times |-> {10 * 60}, durations |-> {60}, prices |-> {},
     maxCartItems |-> 0, maxOrders |-> RecoveryOrders]

InitRecovery == CheckedOutState(RecoveryDom, {})

\* At-least-once delivery: the succeeded event keeps being delivered
\* for as long as a delivery changes anything, and a handler that is
\* not cut short goes on to its next statement.
SpecRecovery ==
    /\ InitRecovery
    /\ [][WebhookNext \/ AbortNext]_vars
    /\ WF_vars(Redelivery)
    /\ \A h \in Handlers : WF_vars(HandlerStep(h))

\* Cap of the pricing scenario: order ids an event can name.
PricingOrders == 1

\* Appointments written while the Immigration price changes: u2 books
\* Immigration directly with any of the durations and cancels, u1's
\* order is settled by one handler, an admin reprices Immigration to
\* 10.00 and changes durations of appointments.
PricingDom ==
    [bookers |-> {"u2"}, shoppers |-> {}, handlers |-> {"h1"},
     categories |-> {"Immigration"}, dates |-> {Today + 1},
     times |-> {10 * 60}, durations |-> DURATION_CHOICES,
     prices |-> {10 * 100},
     maxCartItems |-> 0, maxOrders |-> PricingOrders]

InitPricing == CheckedOutState(PricingDom, {})

SpecPricing ==
    InitPricing
    /\ [][BookingNext \/ AdminNext \/ AppointmentAdminNext
             \/ WebhookNext]_vars

\* ------------------------------------------------------------ the claims

\* C1: in every reachable state, whatever the interleaving of direct
\* bookings, webhook settlements and cancellations, at most one
\* Appointment exists for each (category, date, time).
C1_SlotUnique ==
    \A a, b \in appointments :
        (a.category = b.category /\ a.date = b.date /\ a.time = b.time)
            => a = b

\* C1's case: a booking passed validation while the slot was free, a
\* settlement then took the slot, and the booking's insert is still due.
C1_Witness ==
    \E u \in Users : \E a \in appointments :
        /\ book[u].pc = "validated"
        /\ a.is_paid
        /\ a.category = book[u].req.category
        /\ a.date = book[u].req.date
        /\ a.time = book[u].req.time

\* The appointments on the slot a request names.
OnSlot(r) ==
    {a \in appointments :
        a.category = r.category /\ a.date = r.date /\ a.time = r.time}

\* C2 (as claimed): when two direct bookings for the same (category,
\* date, time) both pass the existence check before either inserts, the
\* one whose insert finds the slot taken persists nothing and ends with
\* the SlotConflict outcome.
C2_RacedBookingEndsWithSlotConflict ==
    [][\A u \in Users :
          (/\ book[u].pc = "validated"
           /\ book'[u].pc = "idle"
           /\ OnSlot(book[u].req) # {})
          => (/\ appointments' = appointments
              /\ resp' = Response("book", u, "SlotConflict"))]_vars

\* A request that passes every check of direct booking but the slot's.
C3_OtherwiseValid(r) ==
    /\ r.date >= Today
    /\ 9 * 60 <= r.time /\ r.time < 18 * 60
    /\ r.duration \in {15, 30, 60, 120}
    /\ r.time + r.duration < 18 * 60

\* C3: an otherwise valid direct booking is rejected with SlotConflict
\* if and only if an Appointment with its (category, date, time) exists
\* when it is checked, whoever asks and whatever the duration; a
\* rejection leaves the appointments as they were; a request that finds
\* its slot free (in particular because only another category holds
\* that date and time) is accepted, and its insert on a still free slot
\* persists the appointment for the requesting user.
C3_SlotConflictIffTaken ==
    [][/\ \A u \in Users : \A r \in Requests :
            (BookValidate(u, r) /\ C3_OtherwiseValid(r))
            => /\ appointments' = appointments
               /\ OnSlot(r) # {}
                    => /\ resp' = Response("book", u, "SlotConflict")
                       /\ book'[u].pc = "idle"
               /\ OnSlot(r) = {}
                    => book'[u] = [pc |-> "validated", req |-> r]
       /\ \A u \in Users :
            (/\ book[u].pc = "validated"
             /\ book'[u].pc = "idle"
             /\ OnSlot(book[u].req) = {})
            => /\ resp' = Response("book", u, "Created")
               /\ \E a \in appointments' \ appointments :
                    /\ appointments' = appointments \cup {a}
                    /\ a.user = u
                    /\ a.category = book[u].req.category
                    /\ a.date = book[u].req.date
                    /\ a.time = book[u].req.time
                    /\ a.duration = book[u].req.duration
                    /\ ~a.is_paid]_vars

\* C3's case: the last booking was rejected with SlotConflict on a slot
\* another user holds, while the other category is booked at the same
\* date and time.
C3_Witness ==
    /\ resp.op = "book" /\ resp.outcome = "SlotConflict"
    /\ \E a, b \in appointments :
          /\ a.user # resp.user
          /\ a.category # b.category
          /\ a.date = b.date /\ a.time = b.time
          /\ a.duration # b.duration

\* C4 (as claimed): direct-booking validation accepts a request only if
\* start + duration is strictly before 18:00.
C4_AcceptedEndsBeforeClose ==
    \A u \in Users :
        book[u].pc = "validated"
            => book[u].req.time + book[u].req.duration < 18 * 60

\* A request whose date, start time or duration is out of policy.
C5_OutOfPolicy(r) ==
    \/ r.date < Today
    \/ r.time < 9 * 60
    \/ r.time >= 18 * 60
    \/ r.duration \notin {15, 30, 60, 120}

\* C5: a direct booking whose date is before today, whose start time is
\* outside [09:00, 18:00) or whose duration is not 15, 30, 60 or 120 is
\* rejected with a ValidationError; 08:59 and 18:00 are rejected and
\* 09:00 and 17:59 accepted as start times; a request for today that is
\* in policy, ends before 18:00 and finds its slot free is accepted;
\* every rejection leaves the appointments as they were.
C5_OutOfPolicyRejected ==
    [][/\ \A u \in Users : \A r \in Requests :
            BookValidate(u, r)
            => /\ appointments' = appointments
               /\ C5_OutOfPolicy(r)
                    => /\ resp' = Response("book", u, "ValidationError")
                       /\ book' = book
               /\ (/\ r.date = Today
                   /\ ~C5_OutOfPolicy(r)
                   /\ r.time + r.duration < 18 * 60
                   /\ OnSlot(r) = {})
                    => book'[u] = [pc |-> "validated", req |-> r]
       /\ ~validate_time(8 * 60 + 59)
       /\ validate_time(9 * 60)
       /\ validate_time(17 * 60 + 59)
       /\ ~validate_time(18 * 60)]_vars

\* C5's case: an appointment for today stands, and the last booking was
\* rejected with a ValidationError.
C5_Witness ==
    /\ resp = Response("book", "u1", "ValidationError")
    /\ \E a \in appointments : a.date = Today

\* C6 (as claimed): whatever direct-booking validation rejects for its
\* date, start time, duration or end time, add-to-cart rejects as well,
\* creating no CartItem.
C6_CartAddAppliesBookingPolicy ==
    [][\A u \in Users : \A r \in Requests :
          (CartAdd(u, r) /\ ValidateBooking({}, r) = "ValidationError")
          => cart' = cart]_vars

\* Whether a paid Appointment holds the slot a request names.
C7_PaidOnSlot(r) == \E a \in OnSlot(r) : a.is_paid

\* C7: a cart add, and an update of a cart item, is rejected and leaves
\* the carts as they were when a paid Appointment holds the resulting
\* (category, date, time); when none does, a request with a date not in
\* the past (adds) and a duration of 15, 30, 60 or 120 goes through,
\* whatever unpaid appointment or cart item holds the slot.
C7_OnlyPaidSlotsBlockCart ==
    [][/\ \A u \in Users : \A r \in Requests :
            CartAdd(u, r)
            => /\ C7_PaidOnSlot(r)
                    => /\ cart' = cart
                       /\ resp'.outcome \in {"ValidationError", "SlotConflict"}
               /\ (/\ ~C7_PaidOnSlot(r)
                   /\ r.date >= Today
                   /\ r.duration \in {15, 30, 60, 120})
                    => /\ cart'[u].items = Append(cart[u].items, r)
                       /\ resp' = Response("cart_add", u, "Created")
       /\ \A u \in Users : \A i \in 1..dom.maxCartItems : \A r \in Requests :
            (CartUpdate(u, i, r) /\ i <= Len(cart[u].items))
            => /\ C7_PaidOnSlot(r)
                    => /\ cart' = cart
                       /\ resp'.outcome \in {"ValidationError", "SlotConflict"}
               /\ (~C7_PaidOnSlot(r) /\ r.duration \in {15, 30, 60, 120})
                    => /\ cart'[u].items[i] = r
                       /\ resp' = Response("cart_update", u, "Updated")]_vars

\* C7's case: both users hold in their carts the slot of the unpaid
\* appointment, and the last cart request was rejected for a paid slot.
C7_Witness ==
    /\ resp.outcome = "SlotConflict"
    /\ resp.op \in {"cart_add", "cart_update"}
    /\ \E a \in appointments :
          /\ ~a.is_paid
          /\ \A u \in Users : \E i \in 1..Len(cart[u].items) :
                /\ cart[u].items[i].category = a.category
                /\ cart[u].items[i].date = a.date
                /\ cart[u].items[i].time = a.time

RECURSIVE C8_LiveSum(_)
C8_LiveSum(items) ==
    IF Len(items) = 0 THEN 0
    ELSE (price[items[1].category] * items[1].duration) \div 15
         + C8_LiveSum(SubSeq(items, 2, Len(items)))

\* C8: whenever it is read, a cart's total is the sum over the items in
\* the cart of the category's current price_per_15min / 15 * the item's
\* duration, so a price change after the add shows in the total.
C8_TotalIsLive == \A u \in Users : total(u) = C8_LiveSum(cart[u].items)

\* C8's case: a cart of two items of different categories and durations
\* whose categories have both been repriced since, to different prices.
C8_Witness ==
    \E u \in Users :
        /\ Len(cart[u].items) = 2
        /\ cart[u].items[1].category # cart[u].items[2].category
        /\ cart[u].items[1].duration # cart[u].items[2].duration
        /\ price[cart[u].items[1].category] = 15 * 100
        /\ price[cart[u].items[2].category] = 0

\* C9: a checkout of a user with no cart or with no item in the cart is
\* refused as EmptyCart, one whose live total is not above zero as
\* InvalidTotal; a refusal persists no Order and no OrderItem, does not
\* call the provider and ends the request.
C9_RefusedCheckoutPersistsNothing ==
    [][\A u \in Users :
          /\ (CkStart(u) /\ (~cart[u].exists \/ Len(cart[u].items) = 0))
             => /\ resp' = Response("checkout", u, "EmptyCart")
                /\ ck'[u].pc = "idle"
                /\ UNCHANGED <<orders, orderItems, stripeCalls, intents>>
          /\ (CkTotal(u) /\ C8_LiveSum(cart[u].items) <= 0)
             => /\ resp' = Response("checkout", u, "InvalidTotal")
                /\ ck'[u].pc = "idle"
                /\ UNCHANGED <<orders, orderItems, stripeCalls, intents>>]_vars

\* C9's case: a checkout of a cart that holds an item was refused for
\* its total, and no order and no provider call exists.
C9_Witness ==
    /\ resp = Response("checkout", "u1", "InvalidTotal")
    /\ cart["u1"].items # <<>>
    /\ DOMAIN orders = {}
    /\ stripeCalls = {}

\* C10: when the provider fails to create the payment intent, the
\* request ends with UpstreamPaymentError and the order of that checkout
\* and its OrderItems are gone; no pending order without a
\* payment-intent identifier is left by a checkout that is over.
C10_FailedCheckoutLeavesNoOrder ==
    /\ [][\A u \in Users :
            (ck[u].pc = "stripe" /\ ck'[u].pc = "idle")
            => /\ resp' = Response("checkout", u, "UpstreamPaymentError")
               /\ ck[u].order \notin DOMAIN orders'
               /\ ck[u].order \notin DOMAIN orderItems']_vars
    /\ [](\A id \in DOMAIN orders \cup DOMAIN orderItems :
            \/ \E u \in Users : ck[u].pc # "idle" /\ ck[u].order = id
            \/ /\ id \in DOMAIN orders
               /\ ~(orders[id].status = "pending" /\ orders[id].intent = 0))

\* C10's case: a checkout that had created an order with its item has
\* failed at the provider.
C10_Witness ==
    /\ resp = Response("checkout", "u1", "UpstreamPaymentError")
    /\ nextOrder > 1
    /\ stripeCalls # {}
    /\ intents = {}

\* One step of the checkout request of user u.
CheckoutStep(u) ==
    \/ CkStart(u)
    \/ CkTotal(u)
    \/ CkItems(u)
    \/ \E ok \in BOOLEAN : CkStripe(u, ok)
    \/ CkSave(u)

\* C11: no step of a checkout, whether it is refused, fails at the
\* provider or succeeds, changes any cart: the items after the request
\* are those before it.
C11_CheckoutLeavesCart ==
    [][\A u \in Users : CheckoutStep(u) => cart' = cart]_vars

\* C11's case: a checkout has gone through to the client secret and the
\* cart still holds its item.
C11_Witness ==
    /\ resp = Response("checkout", "u1", "ClientSecret")
    /\ cart["u1"].items # <<>>
    /\ \E id \in DOMAIN orders : orders[id].intent = id

\* What an OrderItem freezes of its cart item.
C12_Snapshot(oi) ==
    <<oi.category_name, oi.date, oi.time, oi.duration, oi.unit_price,
      oi.total_price>>

\* C12: from the step that creates them on, no step changes an Order's
\* total_amount or an OrderItem's category_name, date, time, duration,
\* unit_price or total_price for as long as the order exists; a price
\* change and an add, update, remove or clear of cart items change no
\* Order and no OrderItem at all.
C12_OrderSnapshotFrozen ==
    [][/\ \A id \in DOMAIN orders \cap DOMAIN orders' :
            orders'[id].total_amount = orders[id].total_amount
       /\ \A id \in DOMAIN orderItems \cap DOMAIN orderItems' :
            /\ Len(orderItems'[id]) = Len(orderItems[id])
            /\ \A i \in 1..Len(orderItems[id]) :
                  C12_Snapshot(orderItems'[id][i])
                      = C12_Snapshot(orderItems[id][i])
       /\ (AdminNext \/ CartAddNext \/ CartEditNext)
            => UNCHANGED <<orders, orderItems>>]_vars

\* C12's case: an order stands with its item while the category has
\* been repriced since and the cart no longer holds the item as ordered.
C12_Witness ==
    \E id \in DOMAIN orders \cap DOMAIN orderItems :
        /\ orders[id].intent = id
        /\ Len(orderItems[id]) = 1
        /\ orders[id].total_amount = orderItems[id][1].total_price
        /\ orderItems[id][1].unit_price # price[orderItems[id][1].category]
        /\ cart[orders[id].user].items # <<>>
        /\ cart[orders[id].user].items[1].duration
              # orderItems[id][1].duration

\* C13 (as claimed): an order's status only changes from pending, to
\* paid, failed or cancelled; a paid or failed order keeps its status
\* under every interleaving of its checkout request and the handling of
\* succeeded and failed events for it.
C13_StatusOneWay ==
    [][\A id \in DOMAIN orders \cap DOMAIN orders' :
          orders'[id].status # orders[id].status
          => /\ orders[id].status = "pending"
             /\ orders'[id].status \in {"paid", "failed", "cancelled"}]_vars

\* C14: a delivery whose signature does not verify is answered with
\* InvalidSignature and changes no order, appointment, order item or
\* cart, and starts no processing, whatever its type and order_id.
C14_UnsignedEventChangesNothing ==
    [][\A h \in Handlers : \A ev \in Events :
          (WhReceive(h, ev) /\ ~ev.valid)
          => /\ resp' = Response("webhook", h, "InvalidSignature")
             /\ UNCHANGED <<orders, appointments, orderItems, cart, wh>>]_vars

\* C14's case: a delivery was refused for its signature while the order
\* its event names is pending and holds unsettled items.
C14_Witness ==
    /\ resp.op = "webhook" /\ resp.outcome = "InvalidSignature"
    /\ PendingOrder(1)
    /\ cart[orders[1].user].items # <<>>
    /\ \E i \in 1..Len(ItemsOf(1)) : ItemsOf(1)[i].appointment = NoAppointment

\* What one delivery of the succeeded event leaves: u2's booking as it
\* was and one paid appointment of u1 on the slot that was free.
C15_SettledAppointments ==
    {DirectAppointment,
     NewAppointment("u1", "Immigration", Today + 1, 10 * 60, 15, TRUE)}

\* C15: a succeeded event delivered again for an order, after the first
\* delivery or overlapping it, creates no second appointment: a delivery
\* that finds the order no longer pending starts no processing and
\* changes nothing; a turn of the loop on an item whose slot is held
\* creates and links nothing; and once the order is paid and every
\* delivery is over, the appointments and the links are those one
\* delivery leaves, one appointment for the item whose slot was free.
C15_RedeliveryCreatesNoSecondAppointment ==
    /\ [][/\ \A h \in Handlers : \A ev \in Events :
              (/\ WhReceive(h, ev)
               /\ ev.valid
               /\ ev.type = "payment_intent.succeeded"
               /\ orders[ev.order_id].status # "pending")
              => UNCHANGED <<orders, appointments, orderItems, cart, wh>>
          /\ \A h \in Handlers :
              (/\ WhItem(h)
               /\ \E a \in appointments :
                     LET oi == orderItems[wh[h].order][Head(wh[h].todo)]
                     IN a.category = oi.category /\ a.date = oi.date
                        /\ a.time = oi.time)
              => UNCHANGED <<appointments, orderItems>>]_vars
    /\ []((/\ orders[1].status = "paid"
            /\ \A h \in Handlers : wh[h].pc = "idle")
           => /\ appointments = C15_SettledAppointments
              /\ orderItems[1][1].appointment
                    = <<"Immigration", Today + 1, 10 * 60>>
              /\ orderItems[1][2].appointment = NoAppointment)

\* C15's case: both deliveries found the order pending, both have run
\* the loop to its end, and the order is paid.
C15_Witness ==
    /\ orders[1].status = "paid"
    /\ \A h \in Handlers : wh[h].pc = "items" /\ wh[h].todo = <<>>
    /\ appointments = C15_SettledAppointments

\* C16 (as claimed): a succeeded event that names no order, or an order
\* that is no longer pending, changes no order, appointment, order item
\* or cart, and the delivery is acknowledged as the processed ones are,
\* not answered with an error.
C16_LateEventIsAcknowledged ==
    [][\A h \in Handlers : \A ev \in Events :
          (/\ WhReceive(h, ev)
           /\ ev.valid
           /\ ev.type = "payment_intent.succeeded"
           /\ ~(/\ ev.order_id \in DOMAIN orders
                /\ orders[ev.order_id].status = "pending"))
          => /\ UNCHANGED <<orders, appointments, orderItems, cart>>
             /\ resp' = Response("webhook", h, "ok")]_vars

\* The order item a handler's next turn of the loop is on.
TurnItem(h) == orderItems[wh[h].order][Head(wh[h].todo)]

\* C17: a succeeded event for a pending order is processed: the order
\* becomes paid and every item gets a turn; a turn on an item whose
\* (category, date, time) no appointment holds creates exactly one
\* appointment, with the item's category, date, time and duration, owned
\* by the order's user and paid, and sets the item's reference to it.
C17_SettlementCreatesAppointments ==
    [][\A h \in Handlers :
          /\ \A ev \in Events :
                (/\ WhReceive(h, ev)
                 /\ ev.valid
                 /\ ev.type = "payment_intent.succeeded"
                 /\ orders[ev.order_id].status = "pending")
                => wh'[h].pc = "found" /\ wh'[h].order = ev.order_id
          /\ WhMarkPaid(h)
                => /\ orders'[wh[h].order].status = "paid"
                   /\ wh'[h].todo
                        = [i \in 1..Len(orderItems[wh[h].order]) |-> i]
          /\ (/\ WhItem(h)
               /\ OnSlot(TurnItem(h)) = {})
                => \E a \in appointments' :
                      /\ a \notin appointments
                      /\ appointments' = appointments \cup {a}
                      /\ a.category = TurnItem(h).category
                      /\ a.date = TurnItem(h).date
                      /\ a.time = TurnItem(h).time
                      /\ a.duration = TurnItem(h).duration
                      /\ a.user = orders[wh[h].order].user
                      /\ a.is_paid
                      /\ orderItems'[wh[h].order][Head(wh[h].todo)].appointment
                            = <<a.category, a.date, a.time>>]_vars

\* C17's case: the order is paid and each of its two items is linked
\* to a paid appointment of the order's user with the item's duration.
C17_Witness ==
    /\ orders[1].status = "paid"
    /\ \A i \in 1..2 :
          /\ orderItems[1][i].appointment # NoAppointment
          /\ \E a \in OnSlot(orderItems[1][i]) :
                /\ a.user = orders[1].user
                /\ a.is_paid
                /\ a.duration = orderItems[1][i].duration

\* C18: a turn of the settlement loop on an item whose (category, date,
\* time) an appointment already holds leaves every appointment as it was
\* (owner, duration, is_paid) and the item without a link, and goes on
\* to the remaining items; the delivery ends with the success
\* acknowledgment; an item is only ever linked on a slot held by a paid
\* appointment of the order's user.
C18_TakenSlotLeavesItemUnlinked ==
    /\ [][\A h \in Handlers :
            /\ (WhItem(h) /\ OnSlot(TurnItem(h)) # {})
                  => /\ appointments' = appointments
                     /\ orderItems' = orderItems
                     /\ wh'[h].pc = "items"
                     /\ wh'[h].todo = Tail(wh[h].todo)
            /\ WhClearCart(h)
                  => resp' = Response("webhook", h, "ok")]_vars
    /\ [](\A id \in DOMAIN orderItems : \A i \in 1..Len(orderItems[id]) :
            orderItems[id][i].appointment # NoAppointment
            => \E a \in OnSlot(orderItems[id][i]) :
                  a.is_paid /\ a.user = orders[id].user)

\* C18's case: a delivery has ended with the acknowledgment, the order
\* is paid, its first item is unlinked on a slot another user's unpaid
\* booking of another duration still holds, and its second item, which
\* came after, is linked.
C18_Witness ==
    /\ resp.op = "webhook" /\ resp.outcome = "ok"
    /\ \A h \in Handlers : wh[h].pc = "idle"
    /\ orders[1].status = "paid"
    /\ orderItems[1][1].appointment = NoAppointment
    /\ \E a \in OnSlot(orderItems[1][1]) :
          /\ a.user # orders[1].user
          /\ ~a.is_paid
          /\ a.duration # orderItems[1][1].duration
    /\ orderItems[1][2].appointment # NoAppointment

\* C19 (as claimed): a turn of the settlement loop that finds the slot
\* of an unlinked item held, the payment captured without an
\* appointment, records the conflict: the turn leaves a trace in what
\* the program stores.
C19_SettlementConflictIsRecorded ==
    [][\A h \in Handlers :
          (/\ WhItem(h)
           /\ TurnItem(h).appointment = NoAppointment
           /\ OnSlot(TurnItem(h)) # {})
          => <<orders, orderItems, appointments, cart>>'
                # <<orders, orderItems, appointments, cart>>]_vars

\* C20: the step that ends the processing of a succeeded event leaves
\* the cart of the order's user without items, whether or not an item
\* of the order is unlinked after a slot conflict and whether or not the
\* user has a cart; a missing cart stays missing and the delivery is
\* acknowledged all the same.
C20_SettlementClearsCart ==
    [][\A h \in Handlers :
          WhClearCart(h)
          => /\ cart'[orders[wh[h].order].user].items = <<>>
             /\ cart'[orders[wh[h].order].user].exists
                   = cart[orders[wh[h].order].user].exists
             /\ resp' = Response("webhook", h, "ok")
             /\ wh'[h].pc = "idle"]_vars

\* C20's case: a delivery has ended, the order is paid with an item
\* left unlinked on a slot another user holds, and the buyer's cart,
\* which held the order's items, is there and empty.
C20_Witness ==
    /\ resp.op = "webhook" /\ resp.outcome = "ok"
    /\ \A h \in Handlers : wh[h].pc = "idle"
    /\ orders[1].status = "paid"
    /\ \E i \in 1..2 :
          /\ orderItems[1][i].appointment = NoAppointment
          /\ \E a \in OnSlot(orderItems[1][i]) : a.user # orders[1].user
    /\ cart[orders[1].user].exists
    /\ cart[orders[1].user].items = <<>>

\* C21: a payment-failed event makes a pending order failed and changes
\* nothing else of it; it creates, changes and deletes no appointment,
\* leaves every cart and order item as it was and starts no processing;
\* an order that is not pending is left as it is; the delivery is
\* acknowledged.
C21_FailedEventOnlyMarksFailed ==
    [][\A h \in Handlers : \A ev \in Events :
          (/\ WhReceive(h, ev)
           /\ ev.valid
           /\ ev.type = "payment_intent.payment_failed")
          => /\ UNCHANGED <<appointments, orderItems, cart, wh>>
             /\ resp' = Response("webhook", h, "ok")
             /\ DOMAIN orders' = DOMAIN orders
             /\ \A id \in DOMAIN orders :
                   IF id = ev.order_id /\ orders[id].status = "pending"
                   THEN orders'[id] = [orders[id] EXCEPT !.status = "failed"]
                   ELSE orders'[id] = orders[id]]_vars

\* C21's case: the order has been marked failed by a delivery, with
\* its items unsettled and the buyer's cart as it was checked out.
C21_Witness ==
    /\ resp.op = "webhook" /\ resp.outcome = "ok"
    /\ orders[1].status = "failed"
    /\ \A h \in Handlers : wh[h].pc = "idle"
    /\ \A i \in 1..2 : orderItems[1][i].appointment = NoAppointment
    /\ cart[orders[1].user].items = CheckedOutCart

\* C22: a cancel by the owner deletes an unpaid appointment, and is
\* refused with PaidAppointmentImmutable, the row left as it is, for a
\* paid one; no step of any request removes or changes a paid
\* appointment, so none created by settlement goes away through cancel.
C22_PaidAppointmentsCannotBeCancelled ==
    [][/\ \A u \in Users : \A a \in appointments :
            (Cancel(u, a) /\ a.user = u)
            => IF a.is_paid
               THEN /\ appointments' = appointments
                    /\ resp' = Response("cancel", u,
                                        "PaidAppointmentImmutable")
               ELSE /\ appointments' = appointments \ {a}
                    /\ resp' = Response("cancel", u, "Cancelled")
       /\ \A a \in appointments : a.is_paid => a \in appointments']_vars

\* C22's case: the owner of an appointment that settlement created has
\* asked to cancel it and was refused.
C22_Witness ==
    /\ resp.op = "cancel" /\ resp.outcome = "PaidAppointmentImmutable"
    /\ \E a \in appointments : a.is_paid /\ a.user = resp.user
    /\ \E id \in DOMAIN orderItems :
          orderItems[id][1].appointment # NoAppointment

C29_AppointmentPriceIsChargedPrice ==
    [][\A h \in Handlers :
          (WhItem(h) /\ OnSlot(TurnItem(h)) = {})
          => \A a \in appointments' \ appointments :
                a.total_price = TurnItem(h).total_price]_vars

\* C24: a retrieve or a cancel by a user for an appointment another
\* user owns is answered NotFound and leaves the appointments as they
\* were; a retrieve by the owner returns the appointment; the history a
\* user is given holds no appointment of another user.
C24_OnlyOwnAppointments ==
    [][\A u \in Users :
          /\ \A a \in appointments :
                /\ (Cancel(u, a) /\ a.user # u)
                      => /\ resp' = Response("cancel", u, "NotFound")
                         /\ appointments' = appointments
                /\ (Retrieve(u, a) /\ a.user # u)
                      => /\ resp' = Response("retrieve", u, "NotFound")
                         /\ appointments' = appointments
                /\ (Retrieve(u, a) /\ a.user = u)
                      => resp'.body = {a}
          /\ History(u) => \A b \in resp'.body : b.user = u]_vars

\* C24's case: a cancel has been answered NotFound to a user who owns
\* no appointment while the other user's appointments are in place.
C24_Witness ==
    /\ resp = Response("cancel", "u1", "NotFound")
    /\ appointments # {}
    /\ \A a \in appointments : a.user = "u2"

\* The sum of the total_price of an order's items.
RECURSIVE C25_ItemsTotal(_)
C25_ItemsTotal(items) ==
    IF items = <<>> THEN 0
    ELSE Head(items).total_price + C25_ItemsTotal(Tail(items))

\* C25 (as claimed): for every order whose items the checkout has
\* persisted, total_amount is the sum of the items' total_price and each
\* item's total_price is its unit_price / 15 * its duration, also when
\* a cart add, update or remove or a price change comes between the
\* steps of the checkout.
C25_OrderTotalAgreesWithItems ==
    \A id \in DOMAIN orders \cap DOMAIN orderItems :
        /\ orders[id].total_amount = C25_ItemsTotal(orderItems[id])
        /\ \A i \in 1..Len(orderItems[id]) :
              orderItems[id][i].total_price
                  = orderItems[id][i].unit_price
                        * (orderItems[id][i].duration \div 15)

\* C26 (as claimed): settlement is atomic: in no state is an order paid
\* while a handler processing it still has order items to take its turn
\* on or the buyer's cart to clear.
C26_SettlementIsAtomic ==
    \A h \in Handlers :
        (wh[h].pc = "items" /\ wh[h].order \in DOMAIN orders)
        => orders[wh[h].order].status # "paid"

\* Every item of the order whose slot is free is linked to an
\* appointment and the buyer's cart holds no item.
C27_Settled(id) ==
    /\ \A i \in 1..Len(ItemsOf(id)) :
          \/ ItemsOf(id)[i].appointment # NoAppointment
          \/ OnSlot(ItemsOf(id)[i]) # {}
    /\ cart[orders[id].user].items = <<>>

\* C27 (as claimed): under at-least-once delivery of the succeeded
\* event, with a handler run that may be cut short between its steps, a
\* later redelivery completes the work: once an order is paid,
\* eventually each of its items whose slot is free has a linked
\* appointment and the buyer's cart is cleared.
C27_RedeliveryCompletesSettlement ==
    \A id \in 1..RecoveryOrders :
        (id \in DOMAIN orders /\ orders[id].status = "paid")
            ~> (id \in DOMAIN orders /\ C27_Settled(id))

\* C28 (as claimed): every appointment in the ledger, created by a
\* direct booking or by settlement of an order built from cart items,
\* starts in [09:00, 18:00), has a duration in {15, 30, 60, 120} and
\* ends within working hours.
C28_LedgerWithinWorkingHours ==
    \A a \in appointments :
        /\ a.time >= WORKING_HOURS_START
        /\ a.time < WORKING_HOURS_END
        /\ a.duration \in {15, 30, 60, 120}
        /\ a.time + a.duration <= WORKING_HOURS_END

\* The cart item is a snapshot source of no order item of the user: no
\* order of the user holds an item with its category, date, time and
\* duration.
C30_InNoOrder(u, item) ==
    \A id \in DOMAIN orders \cap DOMAIN orderItems :
        orders[id].user = u
        => \A j \in 1..Len(orderItems[id]) :
              ~(/\ orderItems[id][j].category = item.category
                /\ orderItems[id][j].date = item.date
                /\ orderItems[id][j].time = item.time
                /\ orderItems[id][j].duration = item.duration)

\* C30 (as claimed): the step that ends the processing of a succeeded
\* event removes from the buyer's cart only items that were snapshotted
\* into the order: a cart item that is in no order is still in the cart
\* after it.
C30_SettlementKeepsLaterCartItems ==
    [][\A h \in Handlers :
          (WhClearCart(h) /\ ItemsOf(wh[h].order) # <<>>)
          => LET u == orders[wh[h].order].user IN
             \A i \in 1..Len(cart[u].items) :
                 C30_InNoOrder(u, cart[u].items[i])
                 => \E k \in 1..Len(cart'[u].items) :
                       cart'[u].items[k] = cart[u].items[i]]_vars

====
